---- MODULE Spec2Model ----
(***************************************************************************)
(* Model of server/auth/gatekeeper.go: the authorization gatekeeper of the *)
(* argo server.  One request is resolved by Context/getClients; the policy *)
(* engine (casbin enforcer), the service-account cache and the process     *)
(* environment are the state the requests share.                           *)
(***************************************************************************)
EXTENDS Integers, Sequences, FiniteSets, TLC

(* ----------------------------- bounds --------------------------------- *)
MaxCookies == 2
MaxGroups == 2
MaxAccounts == 2
NumRequests == 2

(* --------------------------- basic values ------------------------------ *)
Nil == [nil |-> TRUE]

Range(s) == {s[i] : i \in 1..Len(s)}

BSeq(S, n) == UNION {[1..k -> S] : k \in 0..n}

RECURSIVE Flatten(_)
Flatten(ss) == IF ss = <<>> THEN <<>> ELSE Head(ss) \o Flatten(Tail(ss))

PrimaryCluster == "default"
OtherCluster == "other"
UnknownCluster == "unknown"
Clusters == {PrimaryCluster, OtherCluster, UnknownCluster}

ServerNamespace == "argo"
SSONamespace == "my-ns"
UserNamespace == "user1-ns"

Procs == 1..NumRequests

(* ------------------------ tokens and auth modes ------------------------ *)
Client == "client"
Server == "server"
SSO == "sso"
AllModes == {Client, Server, SSO}

NoToken == ""
ClientToken == "Bearer t"
SSOToken == "Bearer v2:t"
BadToken == "invalid"
Tokens == {NoToken, ClientToken, SSOToken, BadToken}

\* The mode a token belongs to ("" when it belongs to none).
TokenMode(token) ==
  CASE token = SSOToken -> SSO
    [] token = ClientToken -> Client
    [] token = NoToken -> Server
    [] OTHER -> ""

\* Modes.GetMode: the token's mode, and whether that mode is enabled.
GetMode(enabled, token) ==
  [mode |-> TokenMode(token), valid |-> TokenMode(token) \in enabled]

(* ---------------------- credential extraction -------------------------- *)
Cookie(n, v) == [Name |-> n, Value |-> v]

\* Each cookie header as http.Request.Cookies() parses it.
CookieHeaders ==
  { <<Cookie("authorization", SSOToken)>>,
    <<Cookie("authorization", ClientToken)>>,
    <<Cookie("other", SSOToken), Cookie("authorization", BadToken)>>,
    <<Cookie("authorization", NoToken)>> }

HeaderValues ==
  {<<>>} \cup {<<t>> : t \in Tokens} \cup {<<SSOToken, ClientToken>>}

\* The metadata of a request: with no authorization header, up to MaxCookies
\* cookie headers; with one, at most one cookie header beside it.
MDs ==
  {[authorization |-> <<>>, cookie |-> c] : c \in BSeq(CookieHeaders, MaxCookies)}
  \cup {[authorization |-> a, cookie |-> c] :
          a \in HeaderValues \ {<<>>}, c \in BSeq(CookieHeaders, 1)}

RECURSIVE AuthCookies(_)
AuthCookies(cs) ==
  IF cs = <<>> THEN <<>>
  ELSE (IF Head(cs).Name = "authorization" THEN <<Head(cs).Value>> ELSE <<>>)
       \o AuthCookies(Tail(cs))

\* getAuthHeaders adding the cookies' values to the header's.
GetAuthHeadersWithCookies(md) ==
  (IF Len(md.authorization) > 0 THEN <<md.authorization[1]>> ELSE <<>>)
  \o AuthCookies(Flatten(md.cookie))

getAuthHeaders(md) ==
  IF Len(md.authorization) > 0
  THEN <<md.authorization[1]>>
  ELSE AuthCookies(Flatten(md.cookie))

\* Authorizations without the empty candidate.
AuthorizationsNoSentinel(md) == getAuthHeaders(md)

\* getClients, lines 176-180: the candidate tokens.
Authorizations(md) ==
  IF Len(getAuthHeaders(md)) = 0 THEN <<NoToken>> ELSE getAuthHeaders(md)

\* ScanTokens without the break: the last recognised token wins.
RECURSIVE ScanTokensNoBreak(_, _)
ScanTokensNoBreak(enabled, toks) ==
  IF toks = <<>>
  THEN [mode |-> "", valid |-> FALSE, authorization |-> ""]
  ELSE LET g == GetMode(enabled, Head(toks))
           rest == ScanTokensNoBreak(enabled, Tail(toks))
       IN IF rest.valid
          THEN rest
          ELSE IF g.valid
               THEN [mode |-> g.mode, valid |-> TRUE, authorization |-> Head(toks)]
               ELSE [mode |-> g.mode, valid |-> FALSE, authorization |-> ""]

\* getClients, lines 181-192: the loop over the candidates.  The result is
\* the loop's final (mode, valid, authorization).
RECURSIVE ScanTokens(_, _)
ScanTokens(enabled, toks) ==
  IF toks = <<>>
  THEN [mode |-> "", valid |-> FALSE, authorization |-> ""]
  ELSE LET g == GetMode(enabled, Head(toks))
       IN IF g.valid
          THEN [mode |-> g.mode, valid |-> TRUE, authorization |-> Head(toks)]
          ELSE IF Tail(toks) = <<>>
               THEN [mode |-> g.mode, valid |-> FALSE, authorization |-> ""]
               ELSE ScanTokens(enabled, Tail(toks))

(* ------------------------------ state ---------------------------------- *)
VARIABLES
  modes,       \* gatekeeper.Modes: the enabled auth modes
  namespaced,  \* gatekeeper.namespaced: single-namespace mode
  rbacEnabled, \* what ssoIf.IsRBACEnabled() answers
  policy,      \* enforcer: the permission rules (p lines)
  edges,       \* enforcer: the grouping policy (g lines), <<subject, group>>
  accounts,    \* cache.ServiceAccountLister: the service accounts
  secrets,     \* cache.SecretLister: the secrets, <<namespace, name>>
  env,         \* os.Getenv("SSO_DELEGATE_RBAC_TO_NAMESPACE")
  st           \* per request: position and locals of Context/getClients

vars == <<modes, namespaced, rbacEnabled, policy, edges, accounts, secrets, env, st>>

(* ------------------------------ errors --------------------------------- *)
Unauthenticated == "Unauthenticated"
PermissionDenied == "PermissionDenied"
Unknown == "Unknown"

\* status.Error(code, msg) / status.Errorf(code, format, args...); a plain
\* error (fmt.Errorf, a collaborator's error) has code Unknown.
Err(code, msg, args) == [code |-> code, msg |-> msg, args |-> args]

Call(op, args) == [op |-> op, args |-> args]

(* ----------------------- service-account selection --------------------- *)
AnnotationKeyRBACRule == "workflows.argoproj.io/rbac-rule"
AnnotationKeyRBACRulePrecedence == "workflows.argoproj.io/rbac-rule-precedence"

MyGroup == "my-group"
OtherGroup == "other-group"
RuleMyGroup == "'my-group' in groups"
RuleOtherGroup == "'other-group' in groups"
RuleNotBool == "groups"

\* A Go map lookup: the zero value when the key is absent.
Lookup(m, k) == IF k \in DOMAIN m THEN m[k] ELSE ""

\* strconv.Atoi on the annotation texts in use.
Atoi(s) ==
  CASE s = "0" -> [n |-> 0, ok |-> TRUE]
    [] s = "1" -> [n |-> 1, ok |-> TRUE]
    [] s = "2" -> [n |-> 2, ok |-> TRUE]
    [] s = "3" -> [n |-> 3, ok |-> TRUE]
    [] OTHER -> [n |-> 0, ok |-> FALSE]

precedence(serviceAccount) ==
  Atoi(Lookup(serviceAccount.Annotations, AnnotationKeyRBACRulePrecedence)).n

\* argoexpr.EvalBool(rule, jsonify(claims)): the rule's value over the claims,
\* an error when the expression does not yield a boolean.
EvalBool(rule, claims) ==
  CASE rule = RuleMyGroup -> [ok |-> TRUE, val |-> MyGroup \in Range(claims.Groups)]
    [] rule = RuleOtherGroup -> [ok |-> TRUE, val |-> OtherGroup \in Range(claims.Groups)]
    [] rule = "true" -> [ok |-> TRUE, val |-> TRUE]
    [] OTHER -> [ok |-> FALSE, val |-> FALSE]

Account(name, ns, ann, secs) ==
  [Name |-> name, Namespace |-> ns, Annotations |-> ann, Secrets |-> secs]

Perms(s) == {[i \in 1..Len(s) |-> s[p[i]]] : p \in Permutations(1..Len(s))}

\* The orders a lister may return the elements of a set in.
Enumerations(S) == {f \in [1..Cardinality(S) -> S] : Range(f) = S}

HasRule(serviceAccount) == AnnotationKeyRBACRule \in DOMAIN serviceAccount.Annotations

\* SortSlice with the sort left out.
SortSliceUnsorted(s) == Perms(s)

\* sort.Slice with less(i, j) = precedence(i) > precedence(j): some ordering
\* of the slice in which no element is less than its predecessor (the sort
\* is not stable, so accounts of equal precedence end in any order).
SortSlice(s) ==
  {p \in Perms(s) :
     \A i \in 1..(Len(p) - 1) : ~(precedence(p[i + 1]) > precedence(p[i]))}

\* getServiceAccount, lines 326-341: the loop over the sorted accounts.
RECURSIVE FirstAllowed(_, _)
FirstAllowed(serviceAccounts, claims) ==
  IF serviceAccounts = <<>>
  THEN [sa |-> Nil, err |-> Err(Unknown, "no service account rule matches", <<>>)]
  ELSE LET serviceAccount == Head(serviceAccounts)
           rule == Lookup(serviceAccount.Annotations, AnnotationKeyRBACRule)
           allow == EvalBool(rule, claims)
       IN IF ~allow.ok
          THEN [sa |-> Nil, err |-> Err(Unknown, "failed to evaluate rule", <<>>)]
          ELSE IF ~allow.val
               THEN FirstAllowed(Tail(serviceAccounts), claims)
               ELSE [sa |-> serviceAccount, err |-> Nil]

\* What the lister can answer for a namespace: an error, or the namespace's
\* accounts in some order.
ListServiceAccounts(namespace) ==
  {[list |-> <<>>, err |-> Err(Unknown, "lister", <<>>)]}
  \cup {[list |-> l, err |-> Nil] :
          l \in Enumerations({a \in accounts : a.Namespace = namespace})}

\* getServiceAccount: the results it can return, one per answer of the lister
\* and outcome of the sort.
getServiceAccount(claims, namespace) ==
  UNION { IF listed.err # Nil
          THEN {[sa |-> Nil,
                 err |-> Err(Unknown, "failed to list SSO RBAC service accounts", <<>>)]}
          ELSE {FirstAllowed(sorted, claims) :
                  sorted \in SortSlice(SelectSeq(listed.list, HasRule))}
        : listed \in ListServiceAccounts(namespace) }

\* The variable before any test of gatekeeper_test.go sets it: unset.
EnvAtConstruction == ""

\* canDelegateRBACToRequestNamespace deciding on the value the variable had
\* when the gatekeeper was built.
CanDelegateAsAtConstruction(namespace) ==
  IF namespaced \/ EnvAtConstruction # "true"
  THEN FALSE
  ELSE namespace # "" /\ SSONamespace # namespace

\* canDelegateRBACToRequestNamespace, lines 344-349: os.Getenv is called at
\* each decision.
canDelegateRBACToRequestNamespace(namespace) ==
  IF namespaced \/ env # "true"
  THEN FALSE
  ELSE namespace # "" /\ SSONamespace # namespace

\* "Bearer " + string(secret.Data["token"]): the token is the secret's own.
authorizationForServiceAccount(serviceAccount) ==
  IF Len(serviceAccount.Secrets) = 0
  THEN [authorization |-> <<>>,
        err |-> Err(Unknown, "expected at least one secret for SSO RBAC service account",
                    <<serviceAccount.Name>>)]
  ELSE IF <<serviceAccount.Namespace, serviceAccount.Secrets[1]>> \notin secrets
       THEN [authorization |-> <<>>,
             err |-> Err(Unknown, "failed to get service account secret", <<>>)]
       ELSE [authorization |->
               <<"Bearer", serviceAccount.Namespace, serviceAccount.Secrets[1]>>,
             err |-> Nil]

\* A profile (servertypes.Clients): its cluster and the credential it uses.
Profile(cluster, credential) == [cluster |-> cluster, credential |-> credential]

\* clientForAuthorization: a profile of the primary cluster for the
\* credential, or the error of kubeconfig.GetRestConfig / NewProfile.
clientForAuthorization(authorization) ==
  { [clients |-> Profile(PrimaryCluster, authorization), err |-> Nil],
    [clients |-> Nil, err |-> Err(Unknown, "rest config", <<>>)] }

\* getClientsForServiceAccount leaving the claims as they came.
GetClientsForServiceAccountUnnamed(claims, serviceAccount) ==
  LET a == authorizationForServiceAccount(serviceAccount)
  IN IF a.err # Nil
     THEN {[clients |-> Nil, err |-> a.err, claims |-> claims]}
     ELSE { IF c.err # Nil
            THEN [clients |-> Nil, err |-> c.err, claims |-> claims]
            ELSE [clients |-> c.clients, err |-> Nil, claims |-> claims]
          : c \in clientForAuthorization(a.authorization) }

\* getClientsForServiceAccount, lines 351-362: the clients of the account's
\* credential, the claims naming the account.
getClientsForServiceAccount(claims, serviceAccount) ==
  LET a == authorizationForServiceAccount(serviceAccount)
  IN IF a.err # Nil
     THEN {[clients |-> Nil, err |-> a.err, claims |-> claims]}
     ELSE { IF c.err # Nil
            THEN [clients |-> Nil, err |-> c.err, claims |-> claims]
            ELSE [clients |-> c.clients, err |-> Nil,
                  claims |-> [claims EXCEPT !.ServiceAccountName = serviceAccount.Name]]
          : c \in clientForAuthorization(a.authorization) }

\* outranks with ties going to the requested namespace.
OutranksOrTies(namespaceAccount, loginAccount) ==
  precedence(namespaceAccount) >= precedence(loginAccount)

\* rbacAuthorization, line 376: the namespace account wins only when its
\* precedence is greater.
outranks(namespaceAccount, loginAccount) ==
  precedence(namespaceAccount) > precedence(loginAccount)

\* AuditEntry with the two account fields exchanged.
AuditEntrySwapped(delegatedAccount, loginAccount, claims, allowed, delegated) ==
  [msg |-> "selected SSO RBAC service account for user",
   serviceAccount |-> loginAccount.Name,
   loginServiceAccount |-> delegatedAccount.Name,
   subject |-> claims.Subject,
   ssoDelegationAllowed |-> allowed,
   ssoDelegated |-> delegated]

\* The audit entry of rbacAuthorization, line 382.
AuditEntry(delegatedAccount, loginAccount, claims, allowed, delegated) ==
  [msg |-> "selected SSO RBAC service account for user",
   serviceAccount |-> delegatedAccount.Name,
   loginServiceAccount |-> loginAccount.Name,
   subject |-> claims.Subject,
   ssoDelegationAllowed |-> allowed,
   ssoDelegated |-> delegated]

\* rbacAuthorization failing when the lookup in the requested namespace fails.
RbacAuthorizationStrict(claims, namespace) ==
  UNION {
    IF login.err # Nil
    THEN {[clients |-> Nil, err |-> login.err, claims |-> claims,
           listed |-> <<SSONamespace>>, logs |-> <<>>,
           login |-> login, namespaceLookup |-> Nil, delegatedAccount |-> Nil]}
    ELSE LET ssoDelegationAllowed == canDelegateRBACToRequestNamespace(namespace)
             nsResults == IF ssoDelegationAllowed
                          THEN getServiceAccount(claims, namespace)
                          ELSE {[sa |-> Nil, err |-> Nil]}
         IN UNION {
              LET ssoDelegated ==
                    /\ ssoDelegationAllowed
                    /\ ns.err = Nil
                    /\ outranks(ns.sa, login.sa)
                  delegatedAccount == IF ssoDelegated THEN ns.sa ELSE login.sa
                  info == IF ssoDelegationAllowed /\ ns.err # Nil
                          THEN <<[msg |-> "Error while SSO Delegation"]>>
                          ELSE <<>>
                  entry == AuditEntry(delegatedAccount, login.sa, claims,
                                      ssoDelegationAllowed, ssoDelegated)
              IN IF ssoDelegationAllowed /\ ns.err # Nil
                 THEN {[clients |-> Nil, err |-> ns.err, claims |-> claims,
                        listed |-> <<SSONamespace, namespace>>, logs |-> info,
                        login |-> login, namespaceLookup |-> ns,
                        delegatedAccount |-> Nil]}
                 ELSE
                 {[clients |-> c.clients, err |-> c.err, claims |-> c.claims,
                   listed |-> IF ssoDelegationAllowed
                              THEN <<SSONamespace, namespace>>
                              ELSE <<SSONamespace>>,
                   logs |-> info \o <<entry>>,
                   login |-> login,
                   namespaceLookup |-> IF ssoDelegationAllowed THEN ns ELSE Nil,
                   delegatedAccount |-> delegatedAccount]
                  : c \in getClientsForServiceAccount(claims, delegatedAccount)}
              : ns \in nsResults }
    : login \in getServiceAccount(claims, SSONamespace) }

\* rbacAuthorization: every outcome, with the namespaces listed, the accounts
\* chosen and the log entries written.
rbacAuthorization(claims, namespace) ==
  UNION {
    IF login.err # Nil
    THEN {[clients |-> Nil, err |-> login.err, claims |-> claims,
           listed |-> <<SSONamespace>>, logs |-> <<>>,
           login |-> login, namespaceLookup |-> Nil, delegatedAccount |-> Nil]}
    ELSE LET ssoDelegationAllowed == canDelegateRBACToRequestNamespace(namespace)
             nsResults == IF ssoDelegationAllowed
                          THEN getServiceAccount(claims, namespace)
                          ELSE {[sa |-> Nil, err |-> Nil]}
         IN UNION {
              LET ssoDelegated ==
                    /\ ssoDelegationAllowed
                    /\ ns.err = Nil
                    /\ outranks(ns.sa, login.sa)
                  delegatedAccount == IF ssoDelegated THEN ns.sa ELSE login.sa
                  info == IF ssoDelegationAllowed /\ ns.err # Nil
                          THEN <<[msg |-> "Error while SSO Delegation"]>>
                          ELSE <<>>
                  entry == AuditEntry(delegatedAccount, login.sa, claims,
                                      ssoDelegationAllowed, ssoDelegated)
              IN {[clients |-> c.clients, err |-> c.err, claims |-> c.claims,
                   listed |-> IF ssoDelegationAllowed
                              THEN <<SSONamespace, namespace>>
                              ELSE <<SSONamespace>>,
                   logs |-> info \o <<entry>>,
                   login |-> login,
                   namespaceLookup |-> IF ssoDelegationAllowed THEN ns ELSE Nil,
                   delegatedAccount |-> delegatedAccount]
                  : c \in getClientsForServiceAccount(claims, delegatedAccount)}
              : ns \in nsResults }
    : login \in getServiceAccount(claims, SSONamespace) }

(* --------------------------- policy engine ----------------------------- *)
ServerSub == <<"serviceaccount", PrimaryCluster, ServerNamespace, "argo-server">>
UserSub(subject) == <<"user", PrimaryCluster, subject>>
Group(cluster, g) == <<"group", cluster, g>>
Obj(msg) == <<msg.Cluster, msg.Resource, msg.Namespace>>

Rule(sub, obj, act) == [sub |-> sub, obj |-> obj, act |-> act]

\* casbin's decision: a rule for the object and action names the subject or
\* a group the subject has an edge to.
Granted(sub, obj, act) ==
  \E p \in policy :
     /\ p.obj = obj
     /\ p.act = act
     /\ (p.sub = sub \/ <<sub, p.sub>> \in edges)

\* enforcer.Enforce: the decision, or the engine's error.
Enforce(sub, obj, act) ==
  { [allowed |-> Granted(sub, obj, act), err |-> Nil],
    [allowed |-> FALSE, err |-> Err(Unknown, "enforcer", <<>>)] }

\* The closure `allowed` of getClients, lines 214-223: the error it returns
\* for each answer of Enforce ("decision" keeps the answer).
allowed(sub, obj, act) ==
  { IF e.err # Nil
    THEN [decision |-> "error", err |-> e.err]
    ELSE IF ~e.allowed
         THEN [decision |-> "denied",
               err |-> Err(PermissionDenied, "access denied to %q for %q %q",
                           <<sub, obj, act>>)]
         ELSE [decision |-> "allowed", err |-> Nil]
    : e \in Enforce(sub, obj, act) }

(* -------------------------- cluster profiles --------------------------- *)
KnownClusters == {PrimaryCluster, OtherCluster}

ProfileOf(cluster) == Profile(cluster, <<"profile", cluster>>)

\* Profiles.Primary()
Primary == ProfileOf(PrimaryCluster)

\* Profiles.Find(cluster)
Find(cluster) ==
  IF cluster \in KnownClusters
  THEN [clients |-> ProfileOf(cluster), err |-> Nil]
  ELSE [clients |-> Nil, err |-> Err(Unknown, "cluster not found", <<cluster>>)]

(* ------------------------------ claims --------------------------------- *)
Claims(subject, groups) ==
  [Subject |-> subject, Groups |-> groups, ServiceAccountName |-> ""]

\* serviceaccount.ClaimSetFor(restConfig): the claim set derived from the
\* credential, nil when none can be derived (the error is dropped).
ClaimSetFor(clients) ==
  {Nil, Claims("system:serviceaccount", <<>>)}

(* ------------------------------ Context -------------------------------- *)
Ret(clients, claims, err) == [clients |-> clients, claims |-> claims, err |-> err]

Panic == [panic |-> TRUE]

\* Context attaching what getClients returned before looking at the error.
ContextAttachesFirst(ret) ==
  [ctx |-> IF ret.clients = Nil /\ ret.claims = Nil
           THEN Nil
           ELSE [DynamicKey |-> <<"Dynamic", ret.clients>>,
                 WfKey |-> <<"Workflow", ret.clients>>,
                 EventSourceKey |-> <<"EventSource", ret.clients>>,
                 SensorKey |-> <<"Sensor", ret.clients>>,
                 KubeKey |-> <<"Kubernetes", ret.clients>>,
                 ClaimsKey |-> ret.claims],
   err |-> ret.err]

\* Context, lines 113-125: what it returns for getClients' result.  A nil
\* clients with a nil error is a nil dereference at line 118.
Context(ret) ==
  IF ret.err # Nil
  THEN [ctx |-> Nil, err |-> ret.err]
  ELSE IF ret.clients = Nil
       THEN Panic
       ELSE [ctx |-> [DynamicKey |-> <<"Dynamic", ret.clients>>,
                      WfKey |-> <<"Workflow", ret.clients>>,
                      EventSourceKey |-> <<"EventSource", ret.clients>>,
                      SensorKey |-> <<"Sensor", ret.clients>>,
                      KubeKey |-> <<"Kubernetes", ret.clients>>,
                      ClaimsKey |-> ret.claims],
             err |-> Nil]

(* ------------------------------ accessors ------------------------------ *)
\* A context that Context has not resolved (context.TODO()): no value at all.
Background == <<>>

\* ctx.Value(key): nil when the context holds no value for the key.
Value(ctx, key) == IF key \in DOMAIN ctx THEN ctx[key] ELSE Nil

\* v.(T): the type assertion panics on a nil interface value.
TypeAssert(v) == IF v = Nil THEN Panic ELSE v

\* v, _ := v.(T): the zero value, and no panic, on a nil interface value.
TypeAssertOk(v) == IF v = Nil THEN Nil ELSE v

GetDynamicClient(ctx) == TypeAssert(Value(ctx, "DynamicKey"))

GetWfClient(ctx) == TypeAssert(Value(ctx, "WfKey"))

GetEventSourceClient(ctx) == TypeAssert(Value(ctx, "EventSourceKey"))

GetSensorClient(ctx) == TypeAssert(Value(ctx, "SensorKey"))

GetKubeClient(ctx) == TypeAssert(Value(ctx, "KubeKey"))

\* GetClaims with the panicking form of the assertion.
GetClaimsAsserting(ctx) == TypeAssert(Value(ctx, "ClaimsKey"))

GetClaims(ctx) == TypeAssertOk(Value(ctx, "ClaimsKey"))

\* What each accessor answers on a context.
Accessors(ctx) ==
  [GetDynamicClient |-> GetDynamicClient(ctx),
   GetWfClient |-> GetWfClient(ctx),
   GetEventSourceClient |-> GetEventSourceClient(ctx),
   GetSensorClient |-> GetSensorClient(ctx),
   GetKubeClient |-> GetKubeClient(ctx),
   GetClaims |-> GetClaims(ctx)]

(* ------------------------------ requests ------------------------------- *)
\* A request: a *servertypes.Req, or another message whose operation id (when
\* the call has one) gives the action and resource.
Req(isReq, hasOperation, cluster, namespace) ==
  [isReq |-> isReq, hasOperation |-> hasOperation, Cluster |-> cluster,
   Namespace |-> namespace, Act |-> "get", Resource |-> "workflows"]

Msg(req) ==
  [Cluster |-> req.Cluster, Namespace |-> req.Namespace, Act |-> req.Act,
   Resource |-> req.Resource]

IdleSt ==
  [pc |-> "idle", req |-> Nil, authorizations |-> <<>>, mode |-> "",
   authorization |-> "", msg |-> Nil, claims |-> Nil, clients |-> Nil,
   sub |-> <<>>, idx |-> 0, ret |-> Nil, out |-> Nil, calls |-> <<>>,
   logs |-> <<>>, added |-> {}, rbac |-> Nil, decision |-> "", derived |-> Nil,
   before |-> {}, bare |-> FALSE, resolutions |-> 0, handled |-> <<>>,
   resp |-> Nil, got |-> Nil, md |-> Nil, valid |-> FALSE]

\* The request returns: getClients' result goes through Context.
Return(s, ret) ==
  [s EXCEPT !.pc = "done", !.ret = ret, !.out = Context(ret), !.resolutions = @ + 1]

Called(s, cs) == [s EXCEPT !.calls = @ \o cs]

\* clientMode asking the policy engine about the token's holder first.
ClientModeEnforces(s) ==
  { LET s1 == Called(s, <<Call("Enforce", <<s.authorization, Obj(s.msg), s.msg.Act>>)>>)
    IN IF a.err # Nil
       THEN Return(s1, Ret(Nil, Nil, a.err))
       ELSE IF c.err # Nil
            THEN Return(Called(s1, <<Call("clientForAuthorization", <<s.authorization>>)>>),
                        Ret(Nil, Nil, Err(Unauthenticated, c.err.msg, <<>>)))
            ELSE Return([Called(s1, <<Call("clientForAuthorization", <<s.authorization>>),
                                      Call("ClaimSetFor", <<>>)>>)
                           EXCEPT !.derived = claims],
                        Ret(c.clients, claims, Nil))
    : c \in clientForAuthorization(<<"header", s.authorization>>),
      claims \in ClaimSetFor(Nil),
      a \in allowed(s.authorization, Obj(s.msg), s.msg.Act) }

\* getClients, case Client (lines 226-232).
clientMode(s) ==
  { IF c.err # Nil
    THEN Return(Called(s, <<Call("clientForAuthorization", <<s.authorization>>)>>),
                Ret(Nil, Nil, Err(Unauthenticated, c.err.msg, <<>>)))
    ELSE Return([Called(s, <<Call("clientForAuthorization", <<s.authorization>>),
                             Call("ClaimSetFor", <<>>)>>)
                   EXCEPT !.derived = claims],
                Ret(c.clients, claims, Nil))
    : c \in clientForAuthorization(<<"header", s.authorization>>),
      claims \in ClaimSetFor(Nil) }

\* serverMode resolving the requested cluster before the policy check.
ServerModeFindFirst(s) ==
  { LET p == Find(s.msg.Cluster)
        s1 == [Called(s, <<Call("Primary", <<>>), Call("ClaimSetFor", <<>>),
                           Call("Find", <<s.msg.Cluster>>)>>)
                EXCEPT !.sub = ServerSub, !.derived = claims]
    IN IF p.err # Nil
       THEN Return(s1, Ret(Nil, Nil, p.err))
       ELSE Return([Called(s1, <<Call("Enforce", <<ServerSub, Obj(s.msg), s.msg.Act>>)>>)
                      EXCEPT !.decision = a.decision],
                   IF a.err # Nil THEN Ret(Nil, Nil, a.err)
                   ELSE Ret(p.clients, claims, Nil))
    : claims \in ClaimSetFor(Primary),
      a \in allowed(ServerSub, Obj(s.msg), s.msg.Act) }

\* getClients, case Server (lines 233-241).
serverMode(s) ==
  { LET s1 == [Called(s, <<Call("Primary", <<>>), Call("ClaimSetFor", <<>>),
                           Call("Enforce", <<ServerSub, Obj(s.msg), s.msg.Act>>)>>)
                EXCEPT !.sub = ServerSub, !.decision = a.decision, !.derived = claims]
    IN IF a.err # Nil
       THEN Return(s1, Ret(Nil, Nil, a.err))
       ELSE LET p == Find(s.msg.Cluster)
            IN Return(Called(s1, <<Call("Find", <<s.msg.Cluster>>)>>),
                      Ret(p.clients, claims, p.err))
    : claims \in ClaimSetFor(Primary),
      a \in allowed(ServerSub, Obj(s.msg), s.msg.Act) }

\* rbacDenied passing the selector's own error on to the caller.
RbacDeniedVerbatim(s, o) ==
  Return([s EXCEPT !.logs = @ \o o.logs, !.rbac = o], Ret(Nil, Nil, o.err))

\* getClients, case SSO, lines 248-253: rbacAuthorization failed.
rbacDenied(s, o) ==
  Return([s EXCEPT !.logs = @ \o o.logs
                       \o <<[msg |-> "failed to perform RBAC authorization"]>>,
                   !.rbac = o],
         Ret(Nil, Nil, Err(PermissionDenied, "not allowed", <<>>)))

\* startPolicies returning the clients without the policy check.
StartPoliciesSkipsCheck(s) ==
  Return([s EXCEPT !.sub = UserSub(s.claims.Subject)], Ret(s.clients, s.claims, Nil))

\* getClients, case SSO, lines 259-263: the subject is formed and addPolicies
\* starts (with no group it has nothing to add, and the check is next).
startPolicies(s) ==
  [s EXCEPT !.sub = UserSub(s.claims.Subject),
            !.pc = IF Len(s.claims.Groups) = 0 THEN "enforce" ELSE "add",
            !.idx = 1]

\* getClients, case SSO (lines 242-263), up to the first AddGroupingPolicy.
ssoMode(s, authz) ==
  IF authz.err # Nil
  THEN {Return(Called(s, <<Call("Authorize", <<s.authorization>>)>>),
               Ret(Nil, Nil, Err(Unauthenticated, authz.err.msg, <<>>)))}
  ELSE LET s1 == [Called(s, <<Call("Authorize", <<s.authorization>>),
                              Call("Primary", <<>>), Call("IsRBACEnabled", <<>>)>>)
                   EXCEPT !.claims = authz.claims, !.clients = Primary]
       IN IF rbacEnabled
          THEN { LET s2 == Called(s1, [i \in 1..Len(o.listed) |->
                                         Call("List", <<o.listed[i]>>)])
                 IN IF o.err # Nil
                    THEN rbacDenied(s2, o)
                    ELSE startPolicies([s2 EXCEPT !.clients = o.clients,
                                                  !.claims = o.claims,
                                                  !.logs = @ \o o.logs,
                                                  !.rbac = o])
                 : o \in rbacAuthorization(authz.claims, s.msg.Namespace) }
          ELSE {startPolicies(
                  [s1 EXCEPT !.logs = @ \o
                     <<[msg |-> "using the default service account for user",
                        subject |-> authz.claims.Subject]>>])}

\* getClients from its entry to its first call that changes the policy
\* engine, or to its return when it makes none.
getClientsEntry(md, req, authz) ==
  LET s0 == [IdleSt EXCEPT !.req = req, !.authorizations = Authorizations(md),
                           !.before = edges,
                           !.bare = (getAuthHeaders(md) = <<>>)]
      sel == ScanTokens(modes, Authorizations(md))
  IN IF ~sel.valid
     THEN {Return(s0, Ret(Nil, Nil,
                          Err(Unauthenticated, "token not valid for running mode", <<>>)))}
     ELSE LET s1 == [s0 EXCEPT !.mode = sel.mode, !.authorization = sel.authorization]
          IN IF ~req.isReq /\ ~req.hasOperation
             THEN {Return(Called(s1, <<Call("getOperationID", <<>>)>>),
                          Ret(Nil, Nil, Err(Unknown, "no operation id", <<>>)))}
             ELSE LET s2 == [s1 EXCEPT !.msg = Msg(req)]
                  IN CASE sel.mode = Client -> clientMode(s2)
                       [] sel.mode = Server -> serverMode(s2)
                       [] sel.mode = SSO -> ssoMode(s2, authz)

\* ssoResult returning the delegate's profile whatever the cluster.
SsoResultKeepsDelegate(s, err) ==
  IF err # Nil
  THEN Ret(Nil, Nil, err)
  ELSE Ret(s.clients, s.claims, Nil)

\* ssoResult returning the clients without the claims.
SsoResultDropsClaims(s, err) ==
  IF err # Nil
  THEN Ret(Nil, Nil, err)
  ELSE IF s.msg.Cluster = PrimaryCluster
       THEN Ret(s.clients, Nil, Nil)
       ELSE LET p == Find(s.msg.Cluster)
            IN Ret(p.clients, Nil, p.err)

\* getClients, case SSO, lines 272-279: the result once the check is made.
ssoResult(s, err) ==
  IF err # Nil
  THEN Ret(Nil, Nil, err)
  ELSE IF s.msg.Cluster = PrimaryCluster
       THEN Ret(s.clients, s.claims, Nil)
       ELSE LET p == Find(s.msg.Cluster)
            IN Ret(p.clients, s.claims, p.err)

(* ------------------------------ actions -------------------------------- *)
Shared == <<modes, namespaced, rbacEnabled, policy, accounts, secrets, env>>

\* A request enters Context -> getClients and runs to its first call that
\* changes the policy engine (or to its return).
getClients(r, md, req, authz) ==
  /\ st[r].pc = "idle"
  /\ \E s \in getClientsEntry(md, req, authz) : st' = [st EXCEPT ![r] = s]
  /\ UNCHANGED <<Shared, edges>>

\* addPolicies, lines 296-305: one turn of the loop.  An error of
\* AddGroupingPolicy ends getClients at line 262, before the removal is
\* deferred.
addPolicies(r) ==
  LET s == st[r]
      group == Group(s.msg.Cluster, s.claims.Groups[s.idx])
      s1 == Called(s, <<Call("AddGroupingPolicy", <<s.sub, group>>)>>)
  IN /\ s.pc = "add"
     /\ \/ /\ edges' = edges \cup {<<s.sub, group>>}
           /\ st' = [st EXCEPT ![r] =
                       [s1 EXCEPT !.added = @ \cup ({<<s.sub, group>>} \ edges),
                                  !.idx = @ + 1,
                                  !.pc = IF s.idx = Len(s.claims.Groups)
                                         THEN "enforce" ELSE "add"]]
        \/ /\ edges' = edges
           /\ st' = [st EXCEPT ![r] =
                       Return(s1, Ret(Nil, Nil,
                                      Err(Unknown, "failed to add policy for group %q",
                                          <<group>>)))]
     /\ UNCHANGED Shared

\* getClients, lines 272-279: the check, with removePolicies deferred; the
\* result is kept until the deferred call has run.
enforce(r) ==
  LET s == st[r]
  IN /\ s.pc = "enforce"
     /\ \E a \in allowed(s.sub, Obj(s.msg), s.msg.Act) :
          LET s1 == [Called(s, <<Call("Enforce", <<s.sub, Obj(s.msg), s.msg.Act>>)>>)
                      EXCEPT !.decision = a.decision]
              s2 == IF a.err = Nil /\ s.msg.Cluster # PrimaryCluster
                    THEN Called(s1, <<Call("Find", <<s.msg.Cluster>>)>>)
                    ELSE s1
              ret == ssoResult(s, a.err)
          IN st' = [st EXCEPT ![r] =
                      IF Len(s.claims.Groups) = 0
                      THEN Return(s2, ret)
                      ELSE [s2 EXCEPT !.pc = "remove", !.idx = 1, !.ret = ret]]
     /\ UNCHANGED <<Shared, edges>>

\* removePolicies whose error becomes the request's result.
RemovePoliciesFailsRequest(r) ==
  LET s == st[r]
      group == Group(s.msg.Cluster, s.claims.Groups[s.idx])
      s1 == Called(s, <<Call("RemoveGroupingPolicy", <<s.sub, group>>)>>)
  IN /\ s.pc = "remove"
     /\ \/ /\ edges' = edges \ {<<s.sub, group>>}
           /\ st' = [st EXCEPT ![r] =
                       IF s.idx = Len(s.claims.Groups)
                       THEN Return(s1, s.ret)
                       ELSE [s1 EXCEPT !.idx = @ + 1]]
        \/ /\ edges' = edges
           /\ st' = [st EXCEPT ![r] =
                       Return([s1 EXCEPT !.logs = @ \o
                                 <<[msg |-> "failed to remove policy", sub |-> s.sub]>>],
                              Ret(Nil, Nil,
                                  Err(Unknown, "failed to remove policy for group %q",
                                      <<group>>)))]
     /\ UNCHANGED Shared

\* removePolicies, lines 285-294, run by the deferred function of lines
\* 264-270: one turn of the loop.  An error of RemoveGroupingPolicy ends the
\* loop and is logged; then getClients returns the result it kept.
removePolicies(r) ==
  LET s == st[r]
      group == Group(s.msg.Cluster, s.claims.Groups[s.idx])
      s1 == Called(s, <<Call("RemoveGroupingPolicy", <<s.sub, group>>)>>)
  IN /\ s.pc = "remove"
     /\ \/ /\ edges' = edges \ {<<s.sub, group>>}
           /\ st' = [st EXCEPT ![r] =
                       IF s.idx = Len(s.claims.Groups)
                       THEN Return(s1, s.ret)
                       ELSE [s1 EXCEPT !.idx = @ + 1]]
        \/ /\ edges' = edges
           /\ st' = [st EXCEPT ![r] =
                       Return([s1 EXCEPT !.logs = @ \o
                                 <<[msg |-> "failed to remove policy", sub |-> s.sub]>>],
                              s.ret)]
     /\ UNCHANGED Shared

\* What the handler of a call can answer.
HandlerResults ==
  { [resp |-> "response", err |-> Nil],
    [resp |-> Nil, err |-> Err(Unknown, "handler", <<>>)] }

\* UnaryServerInterceptor calling the handler whatever Context returned.
InterceptorAlwaysForwards(r) ==
  LET s == st[r]
  IN /\ s.pc = "done"
     /\ s.out # Panic
     /\ \E h \in HandlerResults :
          st' = [st EXCEPT ![r] =
                   [s EXCEPT !.pc = "returned",
                             !.handled = @ \o <<[ctx |-> s.out.ctx, req |-> s.req]>>,
                             !.resp = h]]
     /\ UNCHANGED <<Shared, edges>>

\* UnaryServerInterceptor, lines 97-105, from the return of Context: the
\* error is returned with a nil response, or the handler is called with the
\* resolved context (it reads the attachment through the accessors) and its
\* answer returned.
UnaryServerInterceptor(r) ==
  LET s == st[r]
  IN /\ s.pc = "done"
     /\ s.out # Panic
     /\ IF s.out.err # Nil
        THEN st' = [st EXCEPT ![r] =
                      [s EXCEPT !.pc = "returned",
                                !.resp = [resp |-> Nil, err |-> s.out.err]]]
        ELSE \E h \in HandlerResults :
               st' = [st EXCEPT ![r] =
                        [s EXCEPT !.pc = "returned",
                                  !.handled = @ \o <<[ctx |-> s.out.ctx, req |-> s.req]>>,
                                  !.got = Accessors(s.out.ctx),
                                  !.resp = h]]
     /\ UNCHANGED <<Shared, edges>>

\* An accessor called on a context that Context has not resolved.
accessUnresolved(r) ==
  /\ st[r].pc = "idle"
  /\ st' = [st EXCEPT ![r] = [@ EXCEPT !.pc = "accessed", !.got = Accessors(Background)]]
  /\ UNCHANGED <<Shared, edges>>

(* ------------------------------ fixtures ------------------------------- *)
Ann(rule, prec) ==
  (AnnotationKeyRBACRule :> rule) @@ (AnnotationKeyRBACRulePrecedence :> prec)

\* The accounts and secrets of gatekeeper_test.go, lines 36-111.
TestAccounts ==
  { Account("my-other-sa", SSONamespace, Ann(RuleOtherGroup, "0"), <<"my-secret">>),
    Account("my-sa", SSONamespace, Ann(RuleMyGroup, "1"), <<"my-secret">>),
    Account("user1-sa", UserNamespace, Ann(RuleMyGroup, "2"), <<"user-secret">>) }

TestSecrets == {<<SSONamespace, "my-secret">>, <<UserNamespace, "user-secret">>}

\* Caches in which delegation fails: a rule that is no boolean expression
\* ahead of the others, an account with no bound secret, a bound secret that
\* is not in the cache.
AccountFixtures ==
  { [accounts |-> TestAccounts, secrets |-> TestSecrets],
    [accounts |-> TestAccounts \cup
                    {Account("broken-sa", SSONamespace, Ann(RuleNotBool, "2"),
                             <<"my-secret">>)},
     secrets |-> TestSecrets],
    [accounts |-> {Account("my-sa", SSONamespace, Ann(RuleMyGroup, "1"), <<>>)},
     secrets |-> TestSecrets],
    [accounts |-> TestAccounts, secrets |-> {}] }

Namespaces == {"", SSONamespace, UserNamespace}

Objs == {<<c, "workflows", n>> : c \in Clusters, n \in Namespaces}

Subject == "alice"

\* Policies: none; the server and my-group may get everything; alice herself
\* may get what is in the primary cluster.
PolicyFixtures ==
  { {},
    {Rule(sub, obj, "get") :
       sub \in {ServerSub} \cup {Group(c, MyGroup) : c \in Clusters}, obj \in Objs},
    {Rule(UserSub(Subject), obj, "get") : obj \in {o \in Objs : o[1] = PrimaryCluster}} }

ModeSets == (SUBSET AllModes) \ {{}}

Reqs ==
  {Req(TRUE, FALSE, c, "") : c \in Clusters}
  \cup {Req(FALSE, TRUE, PrimaryCluster, ""), Req(FALSE, FALSE, PrimaryCluster, "")}

GroupNames == {MyGroup, OtherGroup}

AuthorizeError == [claims |-> Nil, err |-> Err(Unknown, "failed to verify token", <<>>)]

Authorized(groups) == [claims |-> Claims(Subject, groups), err |-> Nil]

\* ssoIf.Authorize: the claims of the token's user, or an error.
AuthorizeResults ==
  {AuthorizeError} \cup {Authorized(g) : g \in BSeq(GroupNames, MaxGroups)}

SSOHeader == [authorization |-> <<SSOToken>>, cookie |-> <<>>]

\* The inputs of each specification.
SomeAuthorizeResults == {AuthorizeError, Authorized(<<>>), Authorized(<<MyGroup>>)}

SSOReqs == {Req(TRUE, FALSE, c, "") : c \in Clusters}

SharedGroupResults == {Authorized(<<MyGroup>>), Authorized(<<OtherGroup, MyGroup>>)}

PrimaryReq == Req(TRUE, FALSE, PrimaryCluster, "")

SomeClaims == {Claims(Subject, <<>>), Claims(Subject, <<MyGroup>>)}

(* ------------- Spec: every mode, every credential placement ------------ *)
Init ==
  /\ modes \in ModeSets
  /\ namespaced = TRUE
  /\ rbacEnabled \in BOOLEAN
  /\ policy \in PolicyFixtures
  /\ edges = {}
  /\ accounts = TestAccounts
  /\ secrets = TestSecrets
  /\ env = ""
  /\ st = [r \in Procs |-> IdleSt]

Next ==
  \/ \E md \in MDs, req \in Reqs, authz \in SomeAuthorizeResults :
       getClients(1, md, req, authz)
  \/ addPolicies(1)
  \/ enforce(1)
  \/ removePolicies(1)
  \/ UnaryServerInterceptor(1)
  \/ accessUnresolved(1)

Spec == Init /\ [][Next]_vars

(* ------------- SpecSSO: one SSO request, every claim set --------------- *)
InitSSO ==
  /\ modes = {SSO}
  /\ namespaced = TRUE
  /\ rbacEnabled \in BOOLEAN
  /\ policy \in PolicyFixtures
  /\ edges \in {{}, {<<UserSub(Subject), Group(PrimaryCluster, MyGroup)>>}}
  /\ \E f \in AccountFixtures :
        /\ rbacEnabled \/ (f.accounts = TestAccounts /\ f.secrets = TestSecrets)
        /\ accounts = f.accounts
        /\ secrets = f.secrets
  /\ env = ""
  /\ st = [r \in Procs |-> IdleSt]

NextSSO ==
  \/ \E req \in SSOReqs, authz \in AuthorizeResults :
       getClients(1, SSOHeader, req, authz)
  \/ addPolicies(1)
  \/ enforce(1)
  \/ removePolicies(1)

SpecSSO == InitSSO /\ [][NextSSO]_vars

(* ------------- SpecSA: service-account selection over every cache ------ *)
Name(i) == "sa" \o ToString(i)

\* The annotations of an account: "" stands for an annotation that is absent.
AnnOf(rule, prec) ==
  [k \in (IF rule = "" THEN {} ELSE {AnnotationKeyRBACRule})
         \cup (IF prec = "" THEN {} ELSE {AnnotationKeyRBACRulePrecedence})
     |-> IF k = AnnotationKeyRBACRule THEN rule ELSE prec]

AccountShapes ==
  [ns : {SSONamespace, UserNamespace}, rule : {"", RuleMyGroup, RuleNotBool},
   prec : {"", "1"}]

\* Every cache of up to MaxAccounts accounts, each with its own secret.
AccountSets ==
  UNION { { {Account(Name(i), f[i].ns, AnnOf(f[i].rule, f[i].prec), <<Name(i)>>)
              : i \in 1..k}
            : f \in [1..k -> AccountShapes] }
          : k \in 0..MaxAccounts }

InitSA ==
  /\ modes = {SSO}
  /\ namespaced \in BOOLEAN
  /\ rbacEnabled = TRUE
  /\ policy = {}
  /\ edges = {}
  /\ accounts \in AccountSets
  /\ secrets \in {{<<a.Namespace, a.Name>> : a \in accounts}, {}}
  /\ env \in {"", "true"}
  /\ st = [r \in Procs |-> IdleSt]

\* rbacAuthorization applied to the claims and the requested namespace.
selectAccount(r, claims, namespace) ==
  /\ st[r].pc = "idle"
  /\ \E o \in rbacAuthorization(claims, namespace) :
       st' = [st EXCEPT ![r] =
                [IdleSt EXCEPT !.pc = "selected", !.claims = claims,
                               !.msg = Msg(Req(TRUE, FALSE, PrimaryCluster, namespace)),
                               !.rbac = o]]
  /\ UNCHANGED <<Shared, edges>>

NextSA ==
  \E claims \in SomeClaims, namespace \in Namespaces :
     selectAccount(1, claims, namespace)

SpecSA == InitSA /\ [][NextSA]_vars

(* ------------- SpecEnv: the delegation variable changing between requests *)
EnvValues == {"", "true", "false"}

\* os.Setenv / os.Unsetenv of SSO_DELEGATE_RBAC_TO_NAMESPACE between two
\* requests to the same gatekeeper; "" stands for the unset variable.
Setenv(value) ==
  /\ value # env
  /\ env' = value
  /\ UNCHANGED <<modes, namespaced, rbacEnabled, policy, edges, accounts, secrets, st>>

InitEnv ==
  /\ modes = {SSO}
  /\ namespaced = FALSE
  /\ rbacEnabled = TRUE
  /\ policy = {}
  /\ edges = {}
  /\ accounts = TestAccounts
  /\ secrets = TestSecrets
  /\ env = EnvAtConstruction
  /\ st = [r \in Procs |-> IdleSt]

NextEnv ==
  \/ \E r \in Procs, claims \in SomeClaims, namespace \in Namespaces :
       selectAccount(r, claims, namespace)
  \/ \E value \in EnvValues : Setenv(value)

SpecEnv == InitEnv /\ [][NextEnv]_vars

(* ------------- SpecMD: the candidate tokens of every metadata ---------- *)
InitMD ==
  /\ modes \in ModeSets
  /\ namespaced = TRUE
  /\ rbacEnabled = FALSE
  /\ policy = {}
  /\ edges = {}
  /\ accounts = TestAccounts
  /\ secrets = TestSecrets
  /\ env = ""
  /\ st = [r \in Procs |-> IdleSt]

\* getClients, lines 175-195: the candidates are read from the metadata and
\* scanned for the first token of an enabled mode.
selectToken(r, md) ==
  /\ st[r].pc = "idle"
  /\ LET sel == ScanTokens(modes, Authorizations(md))
     IN st' = [st EXCEPT ![r] =
                 [IdleSt EXCEPT !.pc = "scanned", !.md = md,
                                !.authorizations = Authorizations(md),
                                !.mode = sel.mode, !.valid = sel.valid,
                                !.authorization = sel.authorization]]
  /\ UNCHANGED <<Shared, edges>>

NextMD == \E md \in MDs : selectToken(1, md)

SpecMD == InitMD /\ [][NextMD]_vars

(* ------------- SpecConc: concurrent SSO requests of one subject -------- *)
InitConc ==
  /\ modes = {SSO}
  /\ namespaced = TRUE
  /\ rbacEnabled = FALSE
  /\ policy \in PolicyFixtures
  /\ edges = {}
  /\ accounts = TestAccounts
  /\ secrets = TestSecrets
  /\ env = ""
  /\ st = [r \in Procs |-> IdleSt]

NextConc ==
  \E r \in Procs :
     \/ \E authz \in SharedGroupResults :
          getClients(r, SSOHeader, PrimaryReq, authz)
     \/ addPolicies(r)
     \/ enforce(r)
     \/ removePolicies(r)

SpecConc == InitConc /\ [][NextConc]_vars

(* ------------------------------- claims -------------------------------- *)
Done(r) == st[r].pc = "done"

HasCall(s, ops) == \E i \in 1..Len(s.calls) : s.calls[i].op \in ops

EnforcerOps == {"AddGroupingPolicy", "Enforce", "RemoveGroupingPolicy"}

NotAllowed == Err(PermissionDenied, "not allowed", <<>>)

\* C1: when an SSO request has returned, on whatever exit path, no
\* group-membership edge that the request added is left in the policy engine.
C1_NoLeftoverEdge ==
  \A r \in Procs : Done(r) => st[r].added \cap edges = {}

\* C2: an SSO request whose Enforce call answered false returns
\* PermissionDenied "not allowed", with no subject, object or action in it.
C2_DenialIsGeneric ==
  \A r \in Procs :
     (Done(r) /\ st[r].mode = SSO /\ st[r].decision = "denied")
       => st[r].out = [ctx |-> Nil, err |-> NotAllowed]

\* C3: with RBAC enabled, a failed service-account delegation ends the SSO
\* request with PermissionDenied "not allowed" and without any
\* AddGroupingPolicy, Enforce or RemoveGroupingPolicy call.
C3_DelegationFailure ==
  \A r \in Procs :
     (Done(r) /\ st[r].mode = SSO /\ st[r].rbac # Nil /\ st[r].rbac.err # Nil)
       => /\ st[r].out = [ctx |-> Nil, err |-> NotAllowed]
          /\ ~HasCall(st[r], EnforcerOps)
          /\ st[r].added = {}

C3_Witness ==
  \E r \in Procs :
     /\ Done(r) /\ st[r].mode = SSO /\ rbacEnabled
     /\ st[r].rbac # Nil /\ st[r].rbac.err # Nil
     /\ st[r].rbac.err.msg = "no service account rule matches"
     /\ st[r].out.err = NotAllowed

Selected(r) == st[r].pc = "selected"

RuleOf(serviceAccount) == Lookup(serviceAccount.Annotations, AnnotationKeyRBACRule)

Matches(serviceAccount, claims) ==
  EvalBool(RuleOf(serviceAccount), claims).ok /\ EvalBool(RuleOf(serviceAccount), claims).val

FailsToEvaluate(serviceAccount, claims) == ~EvalBool(RuleOf(serviceAccount), claims).ok

\* The rule-bearing accounts of a namespace.
Candidates(namespace) == {a \in accounts : a.Namespace = namespace /\ HasRule(a)}

\* The matching accounts of a namespace that no matching account outranks.
Best(claims, namespace) ==
  {a \in Candidates(namespace) :
     /\ Matches(a, claims)
     /\ \A b \in Candidates(namespace) :
          Matches(b, claims) => precedence(b) <= precedence(a)}

\* What getServiceAccount returns over every order the lister can answer in.
ResultsOverOrders(claims, namespace) ==
  {x \in getServiceAccount(claims, namespace) :
     x.err = Nil \/ x.err.msg # "failed to list SSO RBAC service accounts"}

\* An account getServiceAccount returns carries a rule, matches the claims
\* and is outranked by no matching rule-bearing account of the namespace.
SelectsGreatestMatch ==
  \A r \in Procs :
     (Selected(r) /\ st[r].rbac.login.sa # Nil) =>
        st[r].rbac.login.sa \in Best(st[r].claims, SSONamespace)

\* C4 as claimed: getServiceAccount returns a rule-bearing matching account
\* that no matching account outranks, and when the matching account of
\* greatest precedence is unique the result is the same for every order in
\* which the lister returns the accounts.
C4_OrderIndependent ==
  /\ SelectsGreatestMatch
  /\ \A r \in Procs :
       (Selected(r) /\ Cardinality(Best(st[r].claims, SSONamespace)) = 1) =>
          Cardinality(ResultsOverOrders(st[r].claims, SSONamespace)) = 1

\* C4 as amended: the same, the order mattering only when a rule-bearing
\* account of the same precedence as the unique greatest match has a rule
\* that fails to evaluate.
C4_OrderIndependentUnlessTiedFailure ==
  /\ SelectsGreatestMatch
  /\ \A r \in Procs :
       (/\ Selected(r)
        /\ Cardinality(Best(st[r].claims, SSONamespace)) = 1
        /\ \A a \in Best(st[r].claims, SSONamespace), b \in Candidates(SSONamespace) :
              FailsToEvaluate(b, st[r].claims) => precedence(b) # precedence(a)) =>
          Cardinality(ResultsOverOrders(st[r].claims, SSONamespace)) = 1

C4_Witness ==
  \E r \in Procs :
     /\ Selected(r)
     /\ st[r].rbac.login.sa # Nil
     /\ \E b \in Candidates(SSONamespace) :
          /\ Matches(b, st[r].claims)
          /\ precedence(b) < precedence(st[r].rbac.login.sa)

\* C5: with a login account found, rbacAuthorization looks in the requested
\* namespace exactly when the installation is not namespaced, the delegation
\* variable is "true" and the namespace is neither empty nor the SSO
\* namespace; it uses the account found there exactly when that lookup
\* matched and the account's precedence is strictly greater than the login
\* account's, the login account otherwise; the claims returned name the
\* account used.
C5_DelegationRule ==
  \A r \in Procs :
     (Selected(r) /\ st[r].rbac.login.err = Nil) =>
        LET o == st[r].rbac
            namespace == st[r].msg.Namespace
            eligible == /\ ~namespaced
                        /\ env = "true"
                        /\ namespace # ""
                        /\ namespace # SSONamespace
            found == eligible /\ o.namespaceLookup # Nil /\ o.namespaceLookup.err = Nil
            delegated == found /\ precedence(o.namespaceLookup.sa) > precedence(o.login.sa)
        IN /\ eligible <=> o.namespaceLookup # Nil
           /\ eligible <=> o.listed = <<SSONamespace, namespace>>
           /\ found => o.namespaceLookup.sa \in Best(st[r].claims, namespace)
           /\ (/\ eligible
               /\ o.namespaceLookup.err # Nil
               /\ o.namespaceLookup.err.msg = "no service account rule matches") =>
                 Best(st[r].claims, namespace) = {}
           /\ delegated => o.delegatedAccount = o.namespaceLookup.sa
           /\ ~delegated => o.delegatedAccount = o.login.sa
           /\ o.err = Nil => o.claims.ServiceAccountName = o.delegatedAccount.Name

C5_Witness ==
  \E r \in Procs :
     /\ Selected(r)
     /\ st[r].rbac.err = Nil
     /\ st[r].rbac.login.err = Nil
     /\ st[r].rbac.delegatedAccount.Namespace = UserNamespace
     /\ st[r].rbac.claims.ServiceAccountName = st[r].rbac.delegatedAccount.Name
     /\ st[r].rbac.delegatedAccount # st[r].rbac.login.sa

FirstCall(s, op) ==
  IF HasCall(s, {op})
  THEN CHOOSE i \in 1..Len(s.calls) :
         s.calls[i].op = op /\ \A j \in 1..(i - 1) : s.calls[j].op # op
  ELSE 0

\* C6: in Server mode Profiles.Find is called only after Enforce has allowed
\* the server subject; a denied check returns PermissionDenied without a
\* Find call; an allowed check for an unknown cluster returns an error that
\* is not PermissionDenied.
C6_ServerEnforceBeforeFind ==
  \A r \in Procs :
     (Done(r) /\ st[r].mode = Server) =>
       LET s == st[r]
           e == FirstCall(s, "Enforce")
           f == FirstCall(s, "Find")
       IN /\ f > 0 => /\ e > 0 /\ e < f
                       /\ s.calls[e].args[1] = ServerSub
                       /\ s.decision = "allowed"
                       /\ s.calls[f].args = <<s.msg.Cluster>>
          /\ s.decision = "denied" =>
                /\ f = 0
                /\ s.out.ctx = Nil
                /\ s.out.err # Nil
                /\ s.out.err.code = PermissionDenied
          /\ (s.decision = "allowed" /\ s.msg.Cluster \notin KnownClusters) =>
                /\ s.out.ctx = Nil
                /\ s.out.err # Nil
                /\ s.out.err.code # PermissionDenied

C6_Witness ==
  \E r \in Procs :
     /\ Done(r) /\ st[r].mode = Server /\ st[r].decision = "allowed"
     /\ st[r].msg.Cluster = UnknownCluster
     /\ HasCall(st[r], {"Find"})
     /\ st[r].out.err # Nil /\ st[r].out.err.code = Unknown

Recognised(token) == GetMode(modes, token).valid

\* C7: the request runs in the mode of the first candidate token that
\* GetMode recognises, with that token; when GetMode recognises none it ends
\* Unauthenticated, with no call to a collaborator.
C7_FirstRecognisedToken ==
  \A r \in Procs :
     Done(r) =>
       LET s == st[r]
           a == s.authorizations
       IN IF \E i \in 1..Len(a) : Recognised(a[i])
          THEN LET i == CHOOSE i \in 1..Len(a) :
                          Recognised(a[i]) /\ \A j \in 1..(i - 1) : ~Recognised(a[j])
               IN /\ s.authorization = a[i]
                  /\ s.mode = GetMode(modes, a[i]).mode
                  /\ \A k \in 1..Len(s.calls) :
                        s.calls[k].op \in {"Authorize", "clientForAuthorization"} =>
                          s.calls[k].args = <<a[i]>>
                  /\ (s.mode \in {SSO, Client} /\ s.msg # Nil) =>
                        HasCall(s, {"Authorize", "clientForAuthorization"})
          ELSE /\ s.out = [ctx |-> Nil,
                           err |-> Err(Unauthenticated,
                                       "token not valid for running mode", <<>>)]
               /\ s.calls = <<>>

C7_Witness ==
  \E r \in Procs :
     /\ Done(r)
     /\ Len(st[r].authorizations) = 2
     /\ ~Recognised(st[r].authorizations[1])
     /\ Recognised(st[r].authorizations[2])
     /\ st[r].authorization = st[r].authorizations[2]
     /\ st[r].out.err = Nil

Succeeded(r) == Done(r) /\ st[r].out # Panic /\ st[r].out.err = Nil

\* C8 as claimed: whenever Context returns without error, in any mode, the
\* claims attached to the context are non-nil.
C8_ClaimsNeverNil ==
  \A r \in Procs : Succeeded(r) => st[r].out.ctx.ClaimsKey # Nil

\* C8 as amended: whenever Context returns without error in SSO mode the
\* attached claims are non-nil (the authorizer's claims); in Client and
\* Server modes they are what ClaimSetFor derived, nil when it derived none.
C8_ClaimsNonNilInSSO ==
  \A r \in Procs :
     Succeeded(r) =>
       /\ st[r].mode = SSO =>
             /\ st[r].out.ctx.ClaimsKey # Nil
             /\ st[r].out.ctx.ClaimsKey.Subject = Subject
       /\ st[r].mode \in {Client, Server} =>
             st[r].out.ctx.ClaimsKey = st[r].derived

C8_Witness ==
  \E r \in Procs :
     /\ Succeeded(r) /\ st[r].mode = SSO
     /\ st[r].out.ctx.ClaimsKey # Nil

ClientKeys ==
  { <<"DynamicKey", "Dynamic">>, <<"WfKey", "Workflow">>,
    <<"EventSourceKey", "EventSource">>, <<"SensorKey", "Sensor">>,
    <<"KubeKey", "Kubernetes">> }

\* C9: Context returns either a context with every client of the resolved
\* profile and the claims attached and a nil error, or a nil context and a
\* non-nil error.
C9_ContextAllOrNothing ==
  \A r \in Procs :
     Done(r) =>
       LET o == st[r].out
       IN /\ o # Panic
          /\ \/ /\ o.err = Nil
                /\ o.ctx # Nil
                /\ st[r].ret.clients # Nil
                /\ DOMAIN o.ctx = {k[1] : k \in ClientKeys} \cup {"ClaimsKey"}
                /\ \A k \in ClientKeys : o.ctx[k[1]] = <<k[2], st[r].ret.clients>>
                /\ o.ctx.ClaimsKey = st[r].ret.claims
             \/ /\ o.err # Nil
                /\ o.ctx = Nil

C9_Witness ==
  \E r \in Procs :
     /\ Done(r) /\ st[r].mode = Server
     /\ st[r].ret.err # Nil /\ st[r].ret.claims # Nil
     /\ st[r].out.ctx = Nil /\ st[r].out.err = st[r].ret.err

\* What Enforce answers for a request that runs alone: the policy names the
\* subject or one of the groups of the request's claims.
AloneGranted(s) ==
  \E p \in policy :
     /\ p.obj = Obj(s.msg)
     /\ p.act = s.msg.Act
     /\ \/ p.sub = s.sub
        \/ \E i \in 1..Len(s.claims.Groups) :
             p.sub = Group(s.msg.Cluster, s.claims.Groups[i])

\* C10: concurrent SSO requests of one subject that share a group do not
\* disturb each other: the answer each gets from Enforce is the answer it
\* gets when it runs alone.
C10_NoInterference ==
  \A r \in Procs :
     st[r].decision \in {"allowed", "denied"} =>
       ((st[r].decision = "allowed") <=> AloneGranted(st[r]))

\* C11: an SSO decision removes only the edges it added: every edge that was
\* in the policy engine when the request started is there when it returns.
C11_PreexistingEdgesKept ==
  \A r \in Procs :
     (Done(r) /\ st[r].mode = SSO) => st[r].before \subseteq edges

\* C12: a Client request makes no call to the policy engine; once the
\* profile is asked for, the request succeeds with the profile built from the
\* token, whatever the policy, or fails Unauthenticated with the error of the
\* build.
C12_ClientSkipsPolicy ==
  \A r \in Procs :
     (Done(r) /\ st[r].mode = Client) =>
        /\ ~HasCall(st[r], EnforcerOps)
        /\ HasCall(st[r], {"clientForAuthorization"}) =>
             \/ /\ st[r].out.err = Nil
                /\ st[r].ret.clients =
                     Profile(PrimaryCluster, <<"header", st[r].authorization>>)
             \/ /\ st[r].out.err # Nil
                /\ st[r].out.ctx = Nil
                /\ st[r].out.err = Err(Unauthenticated, "rest config", <<>>)

C12_Witness ==
  \E r \in Procs :
     /\ Done(r) /\ st[r].mode = Client
     /\ policy = {}
     /\ st[r].out.err = Nil
     /\ st[r].calls[1] = Call("clientForAuthorization", <<ClientToken>>)

CallsOf(s, op) == {i \in 1..Len(s.calls) : s.calls[i].op = op}

\* C13: an SSO request that succeeds with RBAC disabled returns the claims of
\* the identity authorizer as they are (its Subject, ServiceAccountName
\* untouched), resolves the primary profile without a call to the
\* service-account lister, and has added the groups' edges, been allowed by
\* Enforce and removed the edges before it returns.
C13_SSOWithoutRBAC ==
  \A r \in Procs :
     (Succeeded(r) /\ st[r].mode = SSO /\ ~rbacEnabled) =>
        LET s == st[r]
            claims == s.out.ctx.ClaimsKey
            e == FirstCall(s, "Enforce")
        IN /\ claims \in {a.claims : a \in AuthorizeResults \ {AuthorizeError}}
           /\ claims.Subject = Subject
           /\ claims.ServiceAccountName = ""
           /\ s.clients = Primary
           /\ s.rbac = Nil
           /\ CallsOf(s, "List") = {}
           /\ s.msg.Cluster = PrimaryCluster => s.ret.clients = Primary
           /\ e > 0
           /\ s.calls[e].args = <<UserSub(claims.Subject), Obj(s.msg), s.msg.Act>>
           /\ s.decision = "allowed"
           /\ Cardinality(CallsOf(s, "AddGroupingPolicy")) = Len(claims.Groups)
           /\ \A i \in CallsOf(s, "AddGroupingPolicy") : i < e
           /\ \A i \in CallsOf(s, "RemoveGroupingPolicy") : i > e
           /\ Len(claims.Groups) > 0 => CallsOf(s, "RemoveGroupingPolicy") # {}

C13_Witness ==
  \E r \in Procs :
     /\ Succeeded(r) /\ st[r].mode = SSO /\ ~rbacEnabled
     /\ Len(st[r].claims.Groups) = 2
     /\ st[r].out.ctx.ClaimsKey.Subject = Subject
     /\ Cardinality(CallsOf(st[r], "RemoveGroupingPolicy")) = 2

\* A request with neither an authorization header nor an authorization
\* cookie, on a server with Server mode enabled, that Enforce has allowed.
BareServerAllowed(r) ==
  /\ Done(r)
  /\ st[r].bare
  /\ Server \in modes
  /\ st[r].decision = "allowed"

\* C14 as claimed: such a request runs in Server mode on the empty token,
\* succeeds, and exposes non-nil claims and the clients of the primary
\* cluster.
C14_BareServerRequest ==
  \A r \in Procs :
     BareServerAllowed(r) =>
        /\ st[r].mode = Server
        /\ st[r].authorization = NoToken
        /\ st[r].out.err = Nil
        /\ st[r].out.ctx.ClaimsKey # Nil
        /\ st[r].ret.clients = Primary

\* C14 as amended: a request with no authorization header or cookie, Server
\* mode enabled, is classified as Server on the empty token; when the policy
\* allows the server subject and the requested cluster is known it succeeds
\* and exposes the clients of the requested cluster (the primary cluster's
\* when it names that one) and the claims ClaimSetFor derived, nil when it
\* derived none; when the cluster is unknown it fails.
C14_BareServerRequestKnownCluster ==
  \A r \in Procs :
     /\ (Done(r) /\ st[r].bare /\ Server \in modes) =>
           /\ st[r].mode = Server
           /\ st[r].authorization = NoToken
     /\ BareServerAllowed(r) =>
           IF st[r].msg.Cluster \in KnownClusters
           THEN /\ st[r].out.err = Nil
                /\ st[r].ret.clients = ProfileOf(st[r].msg.Cluster)
                /\ st[r].msg.Cluster = PrimaryCluster => st[r].ret.clients = Primary
                /\ st[r].out.ctx.ClaimsKey = st[r].derived
           ELSE st[r].out.err # Nil /\ st[r].out.ctx = Nil

C14_Witness ==
  \E r \in Procs :
     /\ BareServerAllowed(r)
     /\ st[r].msg.Cluster = PrimaryCluster
     /\ st[r].out.err = Nil
     /\ st[r].out.ctx.ClaimsKey # Nil
     /\ st[r].out.ctx.KubeKey = <<"Kubernetes", Primary>>

Unresolved(r) == st[r].pc = "accessed"

Returned(r) == st[r].pc = "returned"

ClientAccessors ==
  {"GetDynamicClient", "GetWfClient", "GetEventSourceClient", "GetSensorClient",
   "GetKubeClient"}

\* C15 as claimed: each of the six accessors fails fast on a context that
\* Context has not resolved, and none returns an empty value.
C15_AccessorsFailFast ==
  \A r \in Procs :
     Unresolved(r) => \A a \in DOMAIN st[r].got : st[r].got[a] = Panic

\* C15 as amended: on a context that Context has not resolved the five
\* client accessors fail fast (they panic) while GetClaims returns nil; on a
\* resolved context each accessor returns what Context attached.
C15_ClientAccessorsFailFast ==
  \A r \in Procs :
     /\ Unresolved(r) =>
           /\ DOMAIN st[r].got = ClientAccessors \cup {"GetClaims"}
           /\ \A a \in ClientAccessors : st[r].got[a] = Panic
           /\ st[r].got.GetClaims = Nil
     /\ (Returned(r) /\ st[r].got # Nil) =>
           /\ \A a \in ClientAccessors :
                /\ st[r].got[a] # Panic
                /\ st[r].got[a][2] = st[r].ret.clients
           /\ st[r].got.GetClaims = st[r].ret.claims

C15_Witness ==
  \E r \in Procs :
     /\ Unresolved(r)
     /\ st[r].got.GetKubeClient = Panic
     /\ st[r].got.GetClaims = Nil

\* C19: the unary interceptor resolves the context once per call; when the
\* resolution succeeded the handler is invoked once, with the resolved
\* context and the request, and its answer returned; when it failed the
\* handler is not invoked and the error is returned with a nil response.
C19_InterceptorForwardsOnSuccess ==
  \A r \in Procs :
     /\ ~Returned(r) => st[r].handled = <<>>
     /\ Returned(r) =>
           /\ st[r].resolutions = 1
           /\ IF st[r].out.err = Nil
              THEN /\ st[r].handled = <<[ctx |-> st[r].out.ctx, req |-> st[r].req]>>
                   /\ st[r].out.ctx # Nil
                   /\ st[r].resp \in HandlerResults
              ELSE /\ st[r].handled = <<>>
                   /\ st[r].resp = [resp |-> Nil, err |-> st[r].out.err]

C19_Witness ==
  \E r \in Procs :
     /\ Returned(r)
     /\ st[r].out.err # Nil
     /\ st[r].out.err.code = PermissionDenied
     /\ st[r].handled = <<>>
     /\ st[r].resp.resp = Nil

Scanned(r) == st[r].pc = "scanned"

\* The values of the cookies named "authorization", in the order found.
AuthorizationCookieValues(md) ==
  LET named == SelectSeq(Flatten(md.cookie), LAMBDA c : c.Name = "authorization")
  IN [i \in 1..Len(named) |-> named[i].Value]

\* C16: the candidates are the first authorization header value alone when
\* there is an authorization header (the cookies are then left aside, also
\* when that value belongs to no enabled mode and the request is refused);
\* otherwise the values of the cookies named "authorization" in the order
\* found; otherwise the empty string alone.
C16_CandidateTokens ==
  \A r \in Procs :
     Scanned(r) =>
        LET md == st[r].md
            a == st[r].authorizations
        IN IF md.authorization # <<>>
           THEN /\ a = <<md.authorization[1]>>
                /\ st[r].valid <=> Recognised(md.authorization[1])
           ELSE IF AuthorizationCookieValues(md) # <<>>
                THEN a = AuthorizationCookieValues(md)
                ELSE a = <<NoToken>>

C16_Witness ==
  \E r \in Procs :
     /\ Scanned(r)
     /\ st[r].md.authorization = <<BadToken>>
     /\ \E i \in 1..Len(st[r].md.cookie) :
          \E j \in 1..Len(st[r].md.cookie[i]) :
             /\ st[r].md.cookie[i][j].Name = "authorization"
             /\ Recognised(st[r].md.cookie[i][j].Value)
     /\ st[r].authorizations = <<BadToken>>
     /\ ~st[r].valid

\* C17: an SSO request that Enforce allowed returns, for the primary
\* cluster, the delegate's profile (the service account's with RBAC enabled,
\* the primary profile with RBAC disabled) and, for another cluster, the
\* profile Profiles.Find returns for it, or Find's error and no context when
\* the cluster is unknown.
C17_SSOProfile ==
  \A r \in Procs :
     (Done(r) /\ st[r].mode = SSO /\ st[r].decision = "allowed") =>
        LET s == st[r]
            delegate ==
              IF rbacEnabled
              THEN Profile(PrimaryCluster,
                           authorizationForServiceAccount(s.rbac.delegatedAccount).authorization)
              ELSE Primary
        IN /\ rbacEnabled => s.rbac.clients = delegate
           /\ IF s.msg.Cluster = PrimaryCluster
              THEN s.out.err = Nil /\ s.ret.clients = delegate
              ELSE IF s.msg.Cluster \in KnownClusters
                   THEN s.out.err = Nil /\ s.ret.clients = ProfileOf(s.msg.Cluster)
                   ELSE /\ s.out.ctx = Nil
                        /\ s.out.err = Err(Unknown, "cluster not found", <<s.msg.Cluster>>)
           /\ s.out.err = Nil => s.out.ctx.KubeKey = <<"Kubernetes", s.ret.clients>>

C17_Witness ==
  \E r \in Procs :
     /\ Done(r) /\ st[r].mode = SSO /\ st[r].decision = "allowed"
     /\ rbacEnabled
     /\ st[r].msg.Cluster = OtherCluster
     /\ st[r].ret.clients = ProfileOf(OtherCluster)
     /\ st[r].clients # st[r].ret.clients

AuditEntries(logs) ==
  SelectSeq(logs, LAMBDA e : e.msg = "selected SSO RBAC service account for user")

\* C18: rbacAuthorization writes no audit entry when no home account is
\* selected and exactly one when one is, also when the delegate's credential
\* cannot then be obtained; the entry names the delegate used, the home
\* account and the subject, and tells whether delegation was eligible and
\* whether the account of the requested namespace was used.
C18_OneAuditEntry ==
  \A r \in Procs :
     Selected(r) =>
        LET o == st[r].rbac
            namespace == st[r].msg.Namespace
            entries == AuditEntries(o.logs)
        IN IF o.login.err # Nil
           THEN entries = <<>>
           ELSE /\ Len(entries) = 1
                /\ entries[1].serviceAccount = o.delegatedAccount.Name
                /\ entries[1].loginServiceAccount = o.login.sa.Name
                /\ entries[1].subject = st[r].claims.Subject
                /\ entries[1].ssoDelegationAllowed <=>
                      (/\ ~namespaced
                       /\ env = "true"
                       /\ namespace # ""
                       /\ namespace # SSONamespace)
                /\ entries[1].ssoDelegated <=>
                      (/\ o.namespaceLookup # Nil
                       /\ o.namespaceLookup.err = Nil
                       /\ o.delegatedAccount = o.namespaceLookup.sa
                       /\ o.delegatedAccount.Namespace = namespace
                       /\ o.delegatedAccount # o.login.sa)

C18_Witness ==
  \E r \in Procs :
     /\ Selected(r)
     /\ st[r].rbac.login.err = Nil
     /\ st[r].rbac.err # Nil
     /\ st[r].rbac.err.msg = "failed to get service account secret"
     /\ Len(AuditEntries(st[r].rbac.logs)) = 1
     /\ AuditEntries(st[r].rbac.logs)[1].ssoDelegated
     /\ AuditEntries(st[r].rbac.logs)[1].serviceAccount # st[r].rbac.login.sa.Name

\* C20: an SSO request whose Enforce call returns an error fails with that
\* error, not with PermissionDenied, and the edges it added are out of the
\* policy engine when the error is returned.
C20_EnforceErrorUnwinds ==
  \A r \in Procs :
     (Done(r) /\ st[r].mode = SSO /\ st[r].decision = "error") =>
        /\ st[r].out = [ctx |-> Nil, err |-> Err(Unknown, "enforcer", <<>>)]
        /\ st[r].added \cap edges = {}

RemovalFailed(s) == \E i \in 1..Len(s.logs) : s.logs[i].msg = "failed to remove policy"

\* C21: whether or not RemoveGroupingPolicy fails during the cleanup, an SSO
\* request that Enforce allowed returns its context (or the error of the
\* cluster lookup), one that Enforce denied returns the denial, and one on
\* which Enforce failed returns Enforce's error.
C21_RemovalFailureKeepsResult ==
  \A r \in Procs :
     (Done(r) /\ st[r].mode = SSO /\ st[r].decision # "") =>
        LET s == st[r]
        IN CASE s.decision = "allowed" ->
                  IF s.msg.Cluster \in KnownClusters
                  THEN /\ s.out.err = Nil
                       /\ s.out.ctx # Nil
                       /\ s.out.ctx.ClaimsKey = s.claims
                  ELSE s.out = [ctx |-> Nil,
                                err |-> Err(Unknown, "cluster not found", <<s.msg.Cluster>>)]
             [] s.decision = "denied" ->
                  s.out = [ctx |-> Nil,
                           err |-> Err(PermissionDenied, "access denied to %q for %q %q",
                                       <<s.sub, Obj(s.msg), s.msg.Act>>)]
             [] s.decision = "error" ->
                  s.out = [ctx |-> Nil, err |-> Err(Unknown, "enforcer", <<>>)]

C21_Witness ==
  \E r \in Procs :
     /\ Done(r) /\ st[r].mode = SSO
     /\ st[r].decision = "allowed"
     /\ RemovalFailed(st[r])
     /\ st[r].out.err = Nil
     /\ st[r].added \cap edges # {}

\* The requested namespace is eligible for delegation under the current
\* value of the variable.
EligibleNow(namespace) ==
  /\ ~namespaced
  /\ env = "true"
  /\ namespace # ""
  /\ namespace # SSONamespace

\* C22: a request that finds a login account looks in the requested
\* namespace exactly when the variable is "true" at the moment of that
\* request, whatever it was before; and no later step, a change of the
\* variable included, alters the result of a request already decided.
C22_ToggleReadAtEachDecision ==
  [][\A r \in Procs :
       /\ Selected(r) => st'[r] = st[r]
       /\ (~Selected(r) /\ Selected(r)' /\ st'[r].rbac.login.err = Nil) =>
            /\ (st'[r].rbac.namespaceLookup # Nil) <=> EligibleNow(st'[r].msg.Namespace)
            /\ \E i \in 1..Len(st'[r].rbac.logs) :
                  /\ st'[r].rbac.logs[i].msg = "selected SSO RBAC service account for user"
                  /\ st'[r].rbac.logs[i].ssoDelegationAllowed
                        = EligibleNow(st'[r].msg.Namespace)]_vars

\* Two requests for the same namespace with the same claims, decided by the
\* same gatekeeper: the first was not eligible, the second, after the
\* variable was set, delegated; the variable has since been unset again.
C22_Witness ==
  \E r1, r2 \in Procs :
     /\ r1 # r2
     /\ Selected(r1) /\ Selected(r2)
     /\ st[r1].msg = st[r2].msg
     /\ st[r1].claims = st[r2].claims
     /\ st[r1].rbac.login.err = Nil /\ st[r2].rbac.login.err = Nil
     /\ st[r1].rbac.namespaceLookup = Nil
     /\ st[r1].rbac.delegatedAccount = st[r1].rbac.login.sa
     /\ st[r2].rbac.namespaceLookup # Nil
     /\ st[r2].rbac.delegatedAccount.Namespace = UserNamespace
     /\ env = ""

\* The lookup in the requested namespace was made and failed, a login
\* account having been found.
NamespaceLookupFailed(r) ==
  /\ Selected(r)
  /\ st[r].rbac.login.err = Nil
  /\ st[r].rbac.namespaceLookup # Nil
  /\ st[r].rbac.namespaceLookup.err # Nil

\* With no login account, rbacAuthorization fails with the error of the
\* lookup in the SSO namespace, having listed that namespace only.
HomeFailureIsFinal ==
  \A r \in Procs :
     (Selected(r) /\ st[r].rbac.login.err # Nil) =>
        /\ st[r].rbac.err = st[r].rbac.login.err
        /\ st[r].rbac.clients = Nil
        /\ st[r].rbac.listed = <<SSONamespace>>
        /\ st[r].rbac.namespaceLookup = Nil
        /\ st[r].rbac.delegatedAccount = Nil

\* C23 as claimed: when the lookup in the requested namespace fails,
\* rbacAuthorization does not fail and uses the login account; when no login
\* account matches it fails without looking in the requested namespace.
C23_LookupFailureNeverFails ==
  /\ HomeFailureIsFinal
  /\ \A r \in Procs :
       NamespaceLookupFailed(r) =>
          /\ st[r].rbac.delegatedAccount = st[r].rbac.login.sa
          /\ st[r].rbac.err = Nil

\* C23 as amended: when the lookup in the requested namespace fails, the
\* login account is used and the result is that of building the login
\* account's clients, which is an error when that account has no usable
\* secret or its client cannot be built and is never the lookup's error;
\* when no login account matches, rbacAuthorization fails without looking in
\* the requested namespace.
C23_LookupFailureFallsBack ==
  /\ HomeFailureIsFinal
  /\ \A r \in Procs :
       NamespaceLookupFailed(r) =>
          LET o == st[r].rbac
          IN /\ o.delegatedAccount = o.login.sa
             /\ o.err # o.namespaceLookup.err
             /\ [clients |-> o.clients, err |-> o.err, claims |-> o.claims]
                   \in getClientsForServiceAccount(st[r].claims, o.login.sa)

\* The rule of an account of the requested namespace fails to evaluate and
\* the request is served with the login account.
C23_Witness ==
  \E r \in Procs :
     /\ NamespaceLookupFailed(r)
     /\ st[r].rbac.namespaceLookup.err.msg # "no service account rule matches"
     /\ st[r].rbac.namespaceLookup.err.msg # "failed to list SSO RBAC service accounts"
     /\ st[r].rbac.err = Nil
     /\ st[r].rbac.claims.ServiceAccountName = st[r].rbac.login.sa.Name

\* The accounts named by the claims a request resolved with.
NamedAccounts(r) ==
  {sa \in accounts : sa.Name = st[r].out.ctx.ClaimsKey.ServiceAccountName}

\* The profile built from the credential of a service account.
ProfileOfAccount(sa) ==
  Profile(PrimaryCluster, authorizationForServiceAccount(sa).authorization)

SucceededWithRBAC(r) == Succeeded(r) /\ st[r].mode = SSO /\ rbacEnabled

\* C24 as claimed: an SSO request that succeeds with RBAC enabled returns
\* the clients built from the credential of the service account its claims
\* name, whatever the requested cluster.
C24_ProfileIsNamedAccounts ==
  \A r \in Procs :
     SucceededWithRBAC(r) =>
        /\ NamedAccounts(r) # {}
        /\ \A sa \in NamedAccounts(r) :
             st[r].ret.clients.credential = ProfileOfAccount(sa).credential

\* C24 as amended: such a request returns the clients built from the
\* credential of the service account its claims name when the requested
\* cluster is the primary one; for another cluster it returns the profile
\* configured for that cluster, the claims still naming the service account.
C24_ProfileIsNamedAccountsOnPrimary ==
  \A r \in Procs :
     SucceededWithRBAC(r) =>
        /\ NamedAccounts(r) = {st[r].rbac.delegatedAccount}
        /\ \A sa \in NamedAccounts(r) :
             IF st[r].msg.Cluster = PrimaryCluster
             THEN st[r].ret.clients = ProfileOfAccount(sa)
             ELSE st[r].ret.clients = ProfileOf(st[r].msg.Cluster)

C24_Witness ==
  \E r \in Procs :
     /\ SucceededWithRBAC(r)
     /\ st[r].msg.Cluster = OtherCluster
     /\ st[r].out.ctx.ClaimsKey.ServiceAccountName = "my-sa"
     /\ \A sa \in NamedAccounts(r) : st[r].ret.clients # ProfileOfAccount(sa)
     /\ st[r].ret.clients = ProfileOf(OtherCluster)

====
